---- MODULE Spec2Model ----
(***************************************************************************)
(* Model of the global audio playback store (AudioProvider) of the         *)
(* VoiceCraft dashboard: the React state `audioState`, the ref             *)
(* `audioRef`, the HTMLAudioElement objects the provider creates, and the  *)
(* listeners it registers on them.                                         *)
(*                                                                         *)
(* React specifics that the model keeps:                                   *)
(*  - playTrack reads `audioState` from the closure of the render that     *)
(*    created it (variable `rendered`); the state itself (`audioState`)    *)
(*    is what the queued updaters produce.  Render commits the state to    *)
(*    the closures.                                                        *)
(*  - setAudioState(prev => ...) updaters are applied in issue order, so   *)
(*    applying each one at once to `audioState` gives the committed value. *)
(* HTMLMediaElement specifics that the model keeps:                        *)
(*  - play() may be refused by the platform, or the resource may fail to   *)
(*    load; pause(), seeking and playback progress queue a media event     *)
(*    task.  The task fires `timeupdate` and, if the element has ended     *)
(*    playback and is not paused, pauses it and fires `ended`.             *)
(*                                                                         *)
(* The module also models the data hooks of src/hooks/useApi.ts (useApi,   *)
(* useApiCall, useSearch) and the toast store of src/components/Toast.tsx. *)
(* Each of them has its own specification; a specification leaves the      *)
(* variables of the other parts unchanged.                                 *)
(***************************************************************************)
EXTENDS Integers, Sequences, FiniteSets, TLC

VARIABLES audioState, rendered, audioRef, audios, last, requested

\* the hooks of src/hooks/useApi.ts, one instance each
VARIABLES api, call, searchHook

\* ToastProvider of src/components/Toast.tsx
VARIABLES toastStore

\* the last call of a function of src/api (apiUtils, mockVoices)
VARIABLES util

audioVars == <<audioState, rendered, audioRef, audios, last, requested>>

hookVars == <<api, call, searchHook, toastStore, util>>

vars == <<audioVars, hookVars>>

(* ------------------------------ bounds --------------------------------- *)

\* number of Audio elements the provider may create in one run
MaxAudios == 2

\* largest seek target passed to setCurrentTime (smallest is -1)
MaxSeek == 2

(* --------------------------- inputs and data --------------------------- *)

NoTrack == "null"

TrackIds == {"t1", "t2"}

\* the data source supplies one URL per track (voice.audioUrl for voice.id)
UrlOf(id) == IF id = "t1" THEN "a.mp3" ELSE "b.mp3"

SeekTimes == (0 - 1) .. MaxSeek

\* length in seconds of the media behind a URL (audio.duration once loaded)
MediaDuration(url) == IF url = "a.mp3" THEN 1 ELSE 2

(* ------------------------------ the store ------------------------------ *)

\* useState initial value
IdleState ==
  [currentTrack |-> NoTrack, isPlaying |-> FALSE, currentTime |-> 0, duration |-> 0]

(* ------------------------- HTMLAudioElement ---------------------------- *)

\* new Audio(url): paused, nothing loaded, position 0, no event queued
NewAudio(url) ==
  [src |-> url, paused |-> TRUE, loaded |-> FALSE, failed |-> FALSE,
   currentTime |-> 0, queued |-> FALSE]

Clamp(t, lo, hi) == IF t < lo THEN lo ELSE IF t > hi THEN hi ELSE t

\* the `ended` attribute: position at the end of a loaded resource
HasEnded(e) == e.loaded /\ e.currentTime = MediaDuration(e.src)

\* audio.pause(): a playing element is paused and a timeupdate is queued
ElPause(e) ==
  IF e.paused THEN e ELSE [e EXCEPT !.paused = TRUE, !.queued = TRUE]

\* audio.currentTime = t: before metadata is known the value is kept as the
\* default start position; afterwards the element seeks (clamped) and queues
\* a timeupdate
ElSetTime(e, t) ==
  IF e.loaded
    THEN [e EXCEPT !.currentTime = Clamp(t, 0, MediaDuration(e.src)),
                   !.queued = TRUE]
    ELSE [e EXCEPT !.currentTime = t]

\* audio.play(): refused by the platform (allowed = FALSE) or on a failed
\* element it changes nothing; otherwise an element that has ended restarts
\* from 0 and the element leaves the paused state
ElPlay(e, allowed) ==
  IF ~allowed \/ e.failed
    THEN e
    ELSE IF HasEnded(e)
           THEN [e EXCEPT !.paused = FALSE, !.currentTime = 0, !.queued = TRUE]
           ELSE [e EXCEPT !.paused = FALSE]

\* the element is producing sound: playing, not ended, not failed
Producing(e) == ~e.paused /\ ~e.failed /\ ~HasEnded(e)

(* ------------------------------ history -------------------------------- *)

\* `last` is the command or audio event that ran last, with the store as it
\* was just before it.  For playTrack, id is the requested track and fresh
\* tells that this id had never been requested before; for pauseTrack, id
\* is the track of the playTrack call that ran directly before it (if any).
NoLast == [op |-> "none", id |-> NoTrack, fresh |-> FALSE, st |-> IdleState]

Record(op, id) ==
  last' = [op |-> op,
           id |-> IF op = "pause" /\ last.op = "play" THEN last.id ELSE id,
           fresh |-> (op = "play" /\ id \notin requested),
           st |-> audioState]

\* seeks and audio events other than `ended` are recorded without the store
RecordEvent(op) ==
  last' = [NoLast EXCEPT !.op = op,
                         !.st = IF op = "ended" THEN audioState ELSE IdleState]

\* the part of audioState that the provider's closures read
Snapshot(st) == [currentTrack |-> st.currentTrack, isPlaying |-> st.isPlaying]

(* ------------------------------ useApi -------------------------------- *)

\* number of API calls one hook instance may issue in one run
MaxCalls == 3

Null == "null"

\* response.data of a resolved call
Responses == {"d1", "d2"}

\* values an API call may reject with
ErrorValues ==
  {[kind |-> "Error", message |-> "m1"],
   [kind |-> "ApiError", message |-> "m2"],
   [kind |-> "other", message |-> "x"]}

handleApiError(error) ==
  IF error.kind = "ApiError" THEN error.message
  ELSE IF error.kind = "Error" THEN error.message
  ELSE "An unexpected error occurred"

\* a hook or provider whose component has not rendered yet
NotRendered == [rendered |-> FALSE]

\* the three useState cells of a hook
HookState(data, loading, error) ==
  [data |-> data, loading |-> loading, error |-> error]

NoEvent == [op |-> "none", arg |-> Null, pre |-> HookState(Null, FALSE, Null),
            overlapped |-> FALSE]

\* useApi after its first render: loading, nothing fetched, effect not run.
\* pending holds the calls in flight; a call is `overlapped` once another
\* call has been in flight together with it.  last is the step that ran
\* last with the state before it; rejected counts the rejected calls.
ApiInit ==
  [st |-> HookState(Null, TRUE, Null), mounted |-> FALSE, calls |-> 0,
   pending |-> {}, rejected |-> 0, last |-> NoEvent]

\* BeginCall that leaves the old error in place
BeginCallKeepsError(h) ==
  [h EXCEPT !.st = [@ EXCEPT !.loading = TRUE],
            !.calls = @ + 1,
            !.pending = {[r EXCEPT !.overlapped = TRUE] : r \in @}
                          \cup {[id |-> h.calls + 1, overlapped |-> (h.pending # {})]}]

\* the part of an async hook function that runs before `await apiCall()`:
\* setLoading(true), setError(null), and the call is issued
BeginCall(h) ==
  [h EXCEPT !.st = [@ EXCEPT !.loading = TRUE, !.error = Null],
            !.calls = @ + 1,
            !.pending = {[r EXCEPT !.overlapped = TRUE] : r \in @}
                          \cup {[id |-> h.calls + 1, overlapped |-> (h.pending # {})]}]

\* a continuation that stores the data but never clears loading
OnResolvedKeepsLoading(st, d) == [st EXCEPT !.data = d]

\* the continuation after a resolved call: setData, then finally setLoading
OnResolved(st, d) == [st EXCEPT !.data = d, !.loading = FALSE]

\* the continuation after a rejected call: setError, then finally setLoading
OnRejected(st, e) == [st EXCEPT !.error = handleApiError(e), !.loading = FALSE]

Event(h, op, arg, overlapped) ==
  [op |-> op, arg |-> arg, pre |-> h.st, overlapped |-> overlapped]

\* fetchData up to its await
FetchData(h) == BeginCall(h)

\* the first render of a component that calls useApi
UseApi ==
  /\ api = NotRendered
  /\ api' = ApiInit

\* the mount effect runs fetchData once
ApiMount ==
  /\ ~api.mounted
  /\ api' = [FetchData(api) EXCEPT !.mounted = TRUE,
                                   !.last = Event(api, "mount", Null, FALSE)]

\* refetch() calls fetchData again
Refetch ==
  /\ api.mounted
  /\ api.calls < MaxCalls
  /\ api' = [FetchData(api) EXCEPT !.last = Event(api, "refetch", Null, FALSE)]

\* a call in flight resolves with response.data = d
ApiResolve(r, d) ==
  /\ r \in api.pending
  /\ api' = [api EXCEPT !.st = OnResolved(@, d),
                        !.pending = @ \ {r},
                        !.last = Event(api, "resolve", d, r.overlapped)]

\* a call in flight rejects with the value e
ApiReject(r, e) ==
  /\ r \in api.pending
  /\ api' = [api EXCEPT !.st = OnRejected(@, e),
                        !.pending = @ \ {r},
                        !.rejected = @ + 1,
                        !.last = Event(api, "reject", e, r.overlapped)]

\* everything but useApi
exceptApi == <<audioVars, call, searchHook, toastStore, util>>

NextApi ==
  \/ UseApi /\ UNCHANGED exceptApi
  \/ api # NotRendered /\ ApiMount /\ UNCHANGED exceptApi
  \/ api # NotRendered /\ Refetch /\ UNCHANGED exceptApi
  \/ api # NotRendered
       /\ (\E r \in api.pending, d \in Responses : ApiResolve(r, d))
       /\ UNCHANGED exceptApi
  \/ api # NotRendered
       /\ (\E r \in api.pending, e \in ErrorValues : ApiReject(r, e))
       /\ UNCHANGED exceptApi

(* ----------------------------- useApiCall ------------------------------ *)

\* what the promise returned by execute settled with
NoResult == [kind |-> "none", value |-> Null]

\* useApiCall after its first render: nothing loading, nothing called
CallInit ==
  [st |-> HookState(Null, FALSE, Null), calls |-> 0, pending |-> {},
   rejected |-> 0, last |-> NoEvent, result |-> NoResult]

\* the first render of a component that calls useApiCall
UseApiCall ==
  /\ call = NotRendered
  /\ call' = CallInit

\* execute(apiCall) up to its await
Execute ==
  /\ call.calls < MaxCalls
  /\ call' = [BeginCall(call) EXCEPT !.last = Event(call, "execute", Null, FALSE)]

\* apiCall() resolves: setData, return response.data, finally setLoading(false)
CallResolve(r, d) ==
  /\ r \in call.pending
  /\ call' = [call EXCEPT !.st = OnResolved(@, d),
                          !.pending = @ \ {r},
                          !.result = [kind |-> "resolved", value |-> d],
                          !.last = Event(call, "resolve", d, r.overlapped)]

\* apiCall() rejects: setError(errorMessage), throw new Error(errorMessage),
\* finally setLoading(false)
CallReject(r, e) ==
  /\ r \in call.pending
  /\ call' = [call EXCEPT !.st = OnRejected(@, e),
                          !.pending = @ \ {r},
                          !.rejected = @ + 1,
                          !.result = [kind |-> "rejected",
                                      value |-> [kind |-> "Error",
                                                 message |-> handleApiError(e)]],
                          !.last = Event(call, "reject", e, r.overlapped)]

\* a reset that forgets to clear the error
ResetKeepsError ==
  call' = [call EXCEPT !.st = [@ EXCEPT !.data = Null, !.loading = FALSE],
                       !.last = Event(call, "reset", Null, FALSE)]

\* reset(): setData(null), setError(null), setLoading(false)
Reset ==
  call' = [call EXCEPT !.st = HookState(Null, FALSE, Null),
                       !.last = Event(call, "reset", Null, FALSE)]

\* everything but useApiCall
exceptCall == <<audioVars, api, searchHook, toastStore, util>>

NextCall ==
  \/ UseApiCall /\ UNCHANGED exceptCall
  \/ call # NotRendered /\ Execute /\ UNCHANGED exceptCall
  \/ call # NotRendered
       /\ (\E r \in call.pending, d \in Responses : CallResolve(r, d))
       /\ UNCHANGED exceptCall
  \/ call # NotRendered
       /\ (\E r \in call.pending, e \in ErrorValues : CallReject(r, e))
       /\ UNCHANGED exceptCall
  \/ call # NotRendered /\ Reset /\ UNCHANGED exceptCall

(* ------------------------------ useSearch ------------------------------ *)

\* longest query typed
MaxLen == 2

\* the clock stops here
MaxTime == 600

\* the clock advances in steps of this many milliseconds
TickMs == 100

\* default of the debounceMs parameter
DebounceMs == 300

Chars == {" ", "a"}

\* a query is a sequence of characters; << >> is ''
Queries == UNION {[1 .. n -> Chars] : n \in 0 .. MaxLen}

RECURSIVE TrimStart(_)
TrimStart(q) ==
  IF q # << >> /\ Head(q) = " " THEN TrimStart(Tail(q)) ELSE q

RECURSIVE TrimEnd(_)
TrimEnd(q) ==
  IF q # << >> /\ q[Len(q)] = " " THEN TrimEnd(SubSeq(q, 1, Len(q) - 1)) ELSE q

\* a trim that strips nothing
TrimNothing(q) == q

\* String.prototype.trim
Trim(q) == TrimEnd(TrimStart(q))

\* results = []
Empty == [empty |-> TRUE, of |-> << >>]

\* response.data of the search for q
ResponseTo(q) == [empty |-> FALSE, of |-> q]

\* no timer armed
NoTimer == [armed |-> FALSE, q |-> << >>, due |-> 0]

\* the timer the debounce effect arms at the time now for the query q
Timer(q, now) == [armed |-> TRUE, q |-> q, due |-> now + DebounceMs]

NoSearch == [op |-> "none", q |-> << >>, issued |-> FALSE, elapsed |-> 0,
             query |-> << >>, hadResults |-> FALSE]

\* useSearch after its first render and its effect: the timer is armed for
\* the empty query.  dirty: state was set since the last render.
\* changed: when query was last changed; sinceChange: API calls since.
SearchInit ==
  [query |-> << >>, results |-> Empty, loading |-> FALSE, error |-> Null,
   timer |-> Timer(<< >>, 0), now |-> 0, dirty |-> FALSE,
   pending |-> {}, calls |-> 0, changed |-> 0, sinceChange |-> 0,
   last |-> NoSearch]

\* the step that ran last; for a run of search: its argument, whether it
\* called searchApi, the time since query changed, query itself, and
\* whether results were showing
SearchEvent(h, op, q, issued) ==
  IF op = "search"
  THEN [op |-> op, q |-> q, issued |-> issued, elapsed |-> h.now - h.changed,
        query |-> h.query, hadResults |-> (h.results # Empty)]
  ELSE [NoSearch EXCEPT !.op = op]

\* the first render of a component that calls useSearch, and its effect
UseSearch ==
  /\ searchHook = NotRendered
  /\ searchHook' = SearchInit

\* setQuery(q) from an input event; the render and the effect follow at
\* once: the cleanup clears the old timer, the effect arms a new one
SetQuery(q) ==
  /\ q # searchHook.query
  /\ searchHook' = [searchHook EXCEPT !.query = q,
                                      !.timer = Timer(q, searchHook.now),
                                      !.dirty = FALSE,
                                      !.changed = searchHook.now,
                                      !.sinceChange = 0,
                                      !.last = SearchEvent(searchHook, "setQuery", q, FALSE)]

\* search(searchQuery): a blank query empties results and returns; any
\* other query sets loading, clears error and calls searchApi
Search(h, searchQuery) ==
  IF Trim(searchQuery) = << >>
  THEN [h EXCEPT !.results = Empty,
                 !.dirty = TRUE,
                 !.last = SearchEvent(h, "search", searchQuery, FALSE)]
  ELSE [h EXCEPT !.loading = TRUE,
                 !.error = Null,
                 !.dirty = @ \/ ~h.loading \/ h.error # Null,
                 !.pending = @ \cup {[id |-> h.calls + 1, q |-> searchQuery]},
                 !.calls = @ + 1,
                 !.sinceChange = @ + 1,
                 !.last = SearchEvent(h, "search", searchQuery, TRUE)]

\* the debounce timer fires and runs search(query) of the render that armed it
TimerFires ==
  /\ searchHook.timer.armed
  /\ searchHook.now >= searchHook.timer.due
  /\ searchHook.calls < MaxCalls
  /\ searchHook' = Search([searchHook EXCEPT !.timer = NoTimer],
                          searchHook.timer.q)

\* searchApi resolves: setResults(response.data), finally setLoading(false)
SearchResolve(r) ==
  /\ r \in searchHook.pending
  /\ searchHook' = [searchHook EXCEPT !.results = ResponseTo(r.q),
                                      !.loading = FALSE,
                                      !.dirty = TRUE,
                                      !.pending = @ \ {r},
                                      !.last = SearchEvent(searchHook, "resolve", r.q, FALSE)]

\* searchApi rejects: setError, setResults([]), finally setLoading(false)
SearchReject(r, e) ==
  /\ r \in searchHook.pending
  /\ searchHook' = [searchHook EXCEPT !.error = handleApiError(e),
                                      !.results = Empty,
                                      !.loading = FALSE,
                                      !.dirty = TRUE,
                                      !.pending = @ \ {r},
                                      !.last = SearchEvent(searchHook, "reject", r.q, FALSE)]

\* a render after state was set outside an input event.  fresh: the caller
\* passes a new searchApi function, so search changes and the effect runs
\* again: the cleanup clears the timer and the effect arms a new one
Rerender(fresh) ==
  /\ searchHook.dirty
  /\ searchHook' = [searchHook EXCEPT
                      !.dirty = FALSE,
                      !.timer = IF fresh THEN Timer(searchHook.query, searchHook.now)
                                ELSE @,
                      !.last = SearchEvent(searchHook, "render", searchHook.query, FALSE)]

\* clearSearch() from a click: setQuery(''), setResults([]), setError(null);
\* the render follows at once and the effect runs again when query changed
\* or searchApi is a new function
ClearSearch(fresh) ==
  /\ searchHook' = [searchHook EXCEPT
                      !.query = << >>,
                      !.results = Empty,
                      !.error = Null,
                      !.dirty = FALSE,
                      !.timer = IF fresh \/ searchHook.query # << >>
                                THEN Timer(<< >>, searchHook.now) ELSE @,
                      !.changed = IF searchHook.query # << >> THEN searchHook.now ELSE @,
                      !.sinceChange = IF searchHook.query # << >> THEN 0 ELSE @,
                      !.last = SearchEvent(searchHook, "clearSearch", << >>, FALSE)]

\* time passes
Tick ==
  /\ searchHook.now + TickMs <= MaxTime
  /\ searchHook' = [searchHook EXCEPT !.now = @ + TickMs]

\* everything but useSearch
exceptSearch == <<audioVars, api, call, toastStore, util>>

NextSearch ==
  \/ UseSearch /\ UNCHANGED exceptSearch
  \/ searchHook # NotRendered
       /\ (\E q \in Queries : SetQuery(q)) /\ UNCHANGED exceptSearch
  \/ searchHook # NotRendered /\ TimerFires /\ UNCHANGED exceptSearch
  \/ searchHook # NotRendered
       /\ (\E r \in searchHook.pending : SearchResolve(r))
       /\ UNCHANGED exceptSearch
  \/ searchHook # NotRendered
       /\ (\E r \in searchHook.pending, e \in ErrorValues : SearchReject(r, e))
       /\ UNCHANGED exceptSearch
  \/ searchHook # NotRendered
       /\ (\E fresh \in BOOLEAN : Rerender(fresh)) /\ UNCHANGED exceptSearch
  \/ searchHook # NotRendered
       /\ (\E fresh \in BOOLEAN : ClearSearch(fresh)) /\ UNCHANGED exceptSearch
  \/ searchHook # NotRendered /\ Tick /\ UNCHANGED exceptSearch

(* ---------------------------- ToastProvider ---------------------------- *)

\* number of toasts added in one run
MaxToasts == 3

\* duration of a toast added without one
DefaultDuration == 5000

\* toast.duration as passed to addToast: {} when absent, else {d}
DurationInputs == {{}, {0}, {0 - 1}, {2000}}

\* toast.duration ?? 5000
DurationOrDefault(given) ==
  IF given = {} THEN DefaultDuration ELSE CHOOSE d \in given : TRUE

NoToastEvent == [op |-> "none", id |-> 0, duration |-> 0, removed |-> FALSE]

\* the provider after its first render: no toasts.  ids are unique (time
\* stamp plus nine random characters), the model numbers them.  timers
\* holds the ids whose auto-dismiss timeout is armed.
ToastInit ==
  [toasts |-> << >>, timers |-> {}, added |-> 0, last |-> NoToastEvent]

\* a filter that drops the oldest toast, whatever its id
WithoutOldest(toasts, id) ==
  IF toasts = << >> THEN << >> ELSE Tail(toasts)

\* prev.filter(toast => toast.id !== id)
RECURSIVE Without(_, _)
Without(toasts, id) ==
  IF toasts = << >> THEN << >>
  ELSE IF Head(toasts).id = id THEN Without(Tail(toasts), id)
  ELSE <<Head(toasts)>> \o Without(Tail(toasts), id)

ToastIdsOf(toasts) == {toasts[i].id : i \in 1 .. Len(toasts)}

\* the first render of ToastProvider
UseToastProvider ==
  /\ toastStore = NotRendered
  /\ toastStore' = ToastInit

\* an addToast that arms no timer
AddToastNoTimer(given) ==
  /\ toastStore.added < MaxToasts
  /\ LET id == toastStore.added + 1
         newToast == [id |-> id, duration |-> DurationOrDefault(given)]
     IN toastStore' =
          [toastStore EXCEPT
             !.toasts = Append(@, newToast),
             !.added = id,
             !.last = [op |-> "add", id |-> id, duration |-> newToast.duration,
                       removed |-> FALSE]]

\* addToast(toast): append the toast with a new id and the duration or its
\* default, and arm the auto-dismiss timeout when the duration is positive
AddToast(given) ==
  /\ toastStore.added < MaxToasts
  /\ LET id == toastStore.added + 1
         newToast == [id |-> id, duration |-> DurationOrDefault(given)]
     IN toastStore' =
          [toastStore EXCEPT
             !.toasts = Append(@, newToast),
             !.timers = IF newToast.duration > 0 THEN @ \cup {id} ELSE @,
             !.added = id,
             !.last = [op |-> "add", id |-> id, duration |-> newToast.duration,
                       removed |-> FALSE]]

\* the toast with this id as it is in the list (duration 0 when it is not)
ListedDuration(id) ==
  IF id \in ToastIdsOf(toastStore.toasts)
  THEN (CHOOSE t \in {toastStore.toasts[i] : i \in 1 .. Len(toastStore.toasts)} :
          t.id = id).duration
  ELSE 0

\* removeToast(id) from the close button of a toast: ToastItem calls it
\* 300 ms after the click, when the toast may already be off the list
RemoveToast(id) ==
  /\ id \in 1 .. toastStore.added
  /\ toastStore' =
       [toastStore EXCEPT
          !.toasts = Without(@, id),
          !.last = [op |-> "remove", id |-> id, duration |-> ListedDuration(id),
                    removed |-> (id \in ToastIdsOf(toastStore.toasts))]]

\* the auto-dismiss timeout of the toast id fires: removeToast(id)
TimeoutFires(id) ==
  /\ id \in toastStore.timers
  /\ toastStore' =
       [toastStore EXCEPT
          !.toasts = Without(@, id),
          !.timers = @ \ {id},
          !.last = [op |-> "timeout", id |-> id, duration |-> ListedDuration(id),
                    removed |-> (id \in ToastIdsOf(toastStore.toasts))]]

\* clearAllToasts(): setToasts([])
ClearAllToasts ==
  /\ toastStore.toasts # << >>
  /\ toastStore' = [toastStore EXCEPT !.toasts = << >>,
                                      !.last = [NoToastEvent EXCEPT !.op = "clear"]]

\* everything but the toast store
exceptToasts == <<audioVars, api, call, searchHook, util>>

NextToast ==
  \/ UseToastProvider /\ UNCHANGED exceptToasts
  \/ toastStore # NotRendered
       /\ (\E given \in DurationInputs : AddToast(given)) /\ UNCHANGED exceptToasts
  \/ toastStore # NotRendered
       /\ (\E id \in 1 .. MaxToasts : RemoveToast(id)) /\ UNCHANGED exceptToasts
  \/ toastStore # NotRendered
       /\ (\E id \in 1 .. MaxToasts : TimeoutFires(id)) /\ UNCHANGED exceptToasts
  \/ toastStore # NotRendered /\ ClearAllToasts /\ UNCHANGED exceptToasts

(* ------------------------------ apiUtils ------------------------------- *)

\* nothing of src/api has been called
NoCall == [op |-> "none"]

\* what the fallback branch of handleApiError returns
UnexpectedError == "An unexpected error occurred"

\* values a caller may pass to handleApiError: Error and ApiError
\* instances, strings, plain objects, null and undefined
ThrownValues ==
  ErrorValues \cup
  {[kind |-> "Error", message |-> ""],
   [kind |-> "string", message |-> "String error message"],
   [kind |-> "string", message |-> ""],
   [kind |-> "object", message |-> "value"],
   [kind |-> "null", message |-> Null],
   [kind |-> "undefined", message |-> Null]}

\* handleApiError(error) is called
HandleApiErrorCall(error) ==
  util' = [op |-> "handleApiError", arg |-> error, result |-> handleApiError(error)]

\* file.size / 100000
BytesPerMs == 100000

\* the 3000 ms every dubbing takes
BaseMs == 3000

\* the cap of Math.min
CapMs == 10000

\* milliseconds per reported second
MsPerSecond == 1000

\* file.size of the uploaded files, in bytes
FileSizes == {0, 500000, 5000000, 49999999, 50000000, 200000000, 700000000,
              1000000000}

Min(a, b) == IF a <= b THEN a ELSE b

\* Math.min(file.size / 100000 + 3000, 10000), kept exact by counting in
\* units of 1 / 100000 ms
ProcessingTimeScaled(size) == Min(size + BaseMs * BytesPerMs, CapMs * BytesPerMs)

\* Math.round(processingTime / 1000): the nearest integer, halves upwards
ProcessingTime(size) ==
  (ProcessingTimeScaled(size) + (MsPerSecond * BytesPerMs) \div 2)
    \div (MsPerSecond * BytesPerMs)

\* no dubbing has succeeded before
NoDub == [size |-> 0 - 1, processingTime |-> 0]

\* processDubbing(file, ...) settles: it rejects when shouldError was drawn
\* true, else resolves with fileSize and processingTime.  prev is the
\* result of the call before when that one was a dubbing that succeeded.
ProcessDubbing(size, shouldError) ==
  util' = [op |-> "processDubbing",
           success |-> ~shouldError,
           fileSize |-> size,
           processingTime |-> ProcessingTime(size),
           prev |-> IF util.op = "processDubbing" /\ util.success
                    THEN [size |-> util.fileSize,
                          processingTime |-> util.processingTime]
                    ELSE NoDub]

(* ------------------------------ mockVoices ----------------------------- *)

\* a JavaScript string is modelled as the sequence of its characters
UpperToLower ==
  [c \in {"A", "B", "C", "D", "E", "F", "G", "H", "I", "J", "K", "L", "M",
          "N", "O", "P", "Q", "R", "S", "T", "U", "V", "W", "X", "Y", "Z"} |->
     CASE c = "A" -> "a" [] c = "B" -> "b" [] c = "C" -> "c" [] c = "D" -> "d"
       [] c = "E" -> "e" [] c = "F" -> "f" [] c = "G" -> "g" [] c = "H" -> "h"
       [] c = "I" -> "i" [] c = "J" -> "j" [] c = "K" -> "k" [] c = "L" -> "l"
       [] c = "M" -> "m" [] c = "N" -> "n" [] c = "O" -> "o" [] c = "P" -> "p"
       [] c = "Q" -> "q" [] c = "R" -> "r" [] c = "S" -> "s" [] c = "T" -> "t"
       [] c = "U" -> "u" [] c = "V" -> "v" [] c = "W" -> "w" [] c = "X" -> "x"
       [] c = "Y" -> "y" [] c = "Z" -> "z"]

\* String.prototype.toLowerCase
ToLowerCase(s) ==
  [i \in 1 .. Len(s) |-> IF s[i] \in DOMAIN UpperToLower THEN UpperToLower[s[i]]
                         ELSE s[i]]

\* String.prototype.includes
Includes(text, searchTerm) ==
  \E i \in 0 .. (Len(text) - Len(searchTerm)) :
    SubSeq(text, i + 1, i + Len(searchTerm)) = searchTerm

Voice_sara_martin ==
  [id |-> "sara-martin", category |-> "premade",
   name |->
     <<"S", "a", "r", "a", " ", "M", "a", "r", "t", "i", "n">>,
   description |->
     <<"M", "i", "d", "d", "l", "e", " ", "a", "g", "e", "d", " ", "S", "p",
       "a", "n", "i", "s", "h", "-", "C", "a", "s", "t", "i", "l", "i", "a",
       "n", " ", "f", "e", "m", "a", "l", "e", " ", "w", "i", "t", "h", " ",
       "a", " ", "w", "a", "r", "m", ",", " ", "p", "r", "o", "f", "e", "s",
       "s", "i", "o", "n", "a", "l", " ", "t", "o", "n", "e">>,
   language |->
     <<"S", "p", "a", "n", "i", "s", "h">>,
   gender |->
     <<"F", "e", "m", "a", "l", "e">>,
   useCase |->
     <<"N", "a", "r", "r", "a", "t", "i", "o", "n", ",", " ", "P", "r", "o",
       "f", "e", "s", "s", "i", "o", "n", "a", "l">>]

Voice_avatar_franco ==
  [id |-> "avatar-franco", category |-> "premade",
   name |->
     <<"A", "v", "a", "t", "a", "r", " ", "F", "r", "a", "n", "c", "o">>,
   description |->
     <<"M", "i", "d", "d", "l", "e", "-", "a", "g", "e", "d", " ", "m", "a",
       "l", "e", " ", "w", "i", "t", "h", " ", "a", " ", "h", "i", "g", "h",
       " ", "t", "o", "n", "e", ".", " ", "S", "u", "i", "t", "a", "b", "l",
       "e", " ", "f", "o", "r", " ", "e", "n", "e", "r", "g", "e", "t", "i",
       "c", " ", "c", "o", "n", "t", "e", "n", "t">>,
   language |->
     <<"E", "n", "g", "l", "i", "s", "h">>,
   gender |->
     <<"M", "a", "l", "e">>,
   useCase |->
     <<"C", "o", "m", "m", "e", "r", "c", "i", "a", "l", "s", ",", " ", "E",
       "n", "e", "r", "g", "e", "t", "i", "c">>]

Voice_diego_martin ==
  [id |-> "diego-martin", category |-> "premade",
   name |->
     <<"D", "i", "e", "g", "o", " ", "M", "a", "r", "t", "i", "n">>,
   description |->
     <<"Y", "o", "u", "n", "g", " ", "S", "p", "a", "n", "i", "s", "h", " ",
       "M", "a", "s", "c", "u", "l", "i", "n", "e", " ", "M", "a", "l", "e",
       " ", "w", "i", "t", "h", " ", "c", "l", "e", "a", "r", " ", "p", "r",
       "o", "n", "u", "n", "c", "i", "a", "t", "i", "o", "n">>,
   language |->
     <<"S", "p", "a", "n", "i", "s", "h">>,
   gender |->
     <<"M", "a", "l", "e">>,
   useCase |->
     <<"Y", "o", "u", "t", "h", " ", "C", "o", "n", "t", "e", "n", "t", ",",
       " ", "E", "d", "u", "c", "a", "t", "i", "o", "n">>]

Voice_tatiana_martin ==
  [id |-> "tatiana-martin", category |-> "premade",
   name |->
     <<"T", "a", "t", "i", "a", "n", "a", " ", "M", "a", "r", "t", "i", "n">>,
   description |->
     <<"M", "i", "d", "d", "l", "e", " ", "a", "g", "e", "d", " ", "f", "e",
       "m", "a", "l", "e", " ", "w", "i", "t", "h", " ", "n", "e", "u", "t",
       "r", "a", "l", " ", "S", "p", "a", "n", "i", "s", "h", " ", "a", "c",
       "c", "e", "n", "t", ",", " ", "p", "e", "r", "f", "e", "c", "t", " ",
       "f", "o", "r", " ", "c", "o", "r", "p", "o", "r", "a", "t", "e", " ",
       "c", "o", "n", "t", "e", "n", "t">>,
   language |->
     <<"S", "p", "a", "n", "i", "s", "h">>,
   gender |->
     <<"F", "e", "m", "a", "l", "e">>,
   useCase |->
     <<"C", "o", "r", "p", "o", "r", "a", "t", "e", ",", " ", "T", "r", "a",
       "i", "n", "i", "n", "g">>]

Voice_my_voice_clone ==
  [id |-> "my-voice-clone", category |-> "cloned",
   name |->
     <<"M", "y", " ", "V", "o", "i", "c", "e", " ", "C", "l", "o", "n", "e">>,
   description |->
     <<"P", "e", "r", "s", "o", "n", "a", "l", " ", "v", "o", "i", "c", "e",
       " ", "c", "l", "o", "n", "e", " ", "c", "r", "e", "a", "t", "e", "d",
       " ", "f", "r", "o", "m", " ", "a", "u", "d", "i", "o", " ", "s", "a",
       "m", "p", "l", "e", "s">>,
   language |->
     <<"E", "n", "g", "l", "i", "s", "h">>,
   gender |->
     <<"M", "a", "l", "e">>,
   useCase |->
     <<"P", "e", "r", "s", "o", "n", "a", "l", " ", "P", "r", "o", "j", "e",
       "c", "t", "s">>]

Voice_ai_generated ==
  [id |-> "ai-generated", category |-> "generated",
   name |->
     <<"A", "I", " ", "G", "e", "n", "e", "r", "a", "t", "e", "d", " ", "V",
       "o", "i", "c", "e">>,
   description |->
     <<"C", "u", "s", "t", "o", "m", " ", "v", "o", "i", "c", "e", " ", "g",
       "e", "n", "e", "r", "a", "t", "e", "d", " ", "f", "r", "o", "m", " ",
       "t", "e", "x", "t", " ", "d", "e", "s", "c", "r", "i", "p", "t", "i",
       "o", "n">>,
   language |->
     <<"E", "n", "g", "l", "i", "s", "h">>,
   gender |->
     <<"N", "e", "u", "t", "r", "a", "l">>,
   useCase |->
     <<"E", "x", "p", "e", "r", "i", "m", "e", "n", "t", "a", "l">>]

\* the voice library, in its order
mockVoices ==
  <<Voice_sara_martin,
    Voice_avatar_franco,
    Voice_diego_martin,
    Voice_tatiana_martin,
    Voice_my_voice_clone,
    Voice_ai_generated>>

CategoryIds == {"all", "premade", "cloned", "generated"}

\* search terms typed by a user
SearchQueries ==
  {<<"f", "e", "m", "a", "l", "e">>,
   <<"n", "a", "r", "r", "a", "t", "i", "o", "n">>,
   <<"z", "z", "z">>,
   <<>>,
   <<" ">>,
   <<" ", " ">>,
   <<"M", "a", "r", "t", "i", "n">>,
   <<"s", "p", "a", "n", "i", "s", "h">>,
   <<"v", "o", "i", "c", "e">>,
   <<"n", "e", "u", "t", "r", "a", "l">>}

getVoicesByCategory(categoryId) ==
  IF categoryId = "all" THEN mockVoices
  ELSE SelectSeq(mockVoices, LAMBDA voice : voice.category = categoryId)

\* searchVoices(query, categoryId): the voices of the category whose name,
\* description, language or useCase contains the lower-cased query
searchVoices(query, categoryId) ==
  LET voices == getVoicesByCategory(categoryId)
      searchTerm == ToLowerCase(query)
  IN IF Trim(query) = << >> THEN voices
     ELSE SelectSeq(voices,
            LAMBDA voice :
              \/ Includes(ToLowerCase(voice.name), searchTerm)
              \/ Includes(ToLowerCase(voice.description), searchTerm)
              \/ Includes(ToLowerCase(voice.language), searchTerm)
              \/ Includes(ToLowerCase(voice.useCase), searchTerm))

\* searchVoicesApi(query, categoryId) settles: simulateApiCall rejects with
\* 'Search failed' when shouldSimulateError() drew true, else it resolves
\* with {data: results, success: true}
SearchVoicesApi(query, categoryId, shouldError) ==
  util' = [op |-> "searchVoicesApi",
           query |-> query,
           categoryId |-> categoryId,
           success |-> ~shouldError,
           data |-> IF shouldError THEN << >> ELSE searchVoices(query, categoryId)]

\* everything but the src/api calls
exceptUtil == <<audioVars, api, call, searchHook, toastStore>>

NextUtil ==
  \/ (\E error \in ThrownValues : HandleApiErrorCall(error)) /\ UNCHANGED exceptUtil
  \/ (\E size \in FileSizes, shouldError \in BOOLEAN : ProcessDubbing(size, shouldError))
       /\ UNCHANGED exceptUtil
  \/ (\E query \in SearchQueries, categoryId \in CategoryIds, shouldError \in BOOLEAN :
         SearchVoicesApi(query, categoryId, shouldError))
       /\ UNCHANGED exceptUtil

(* ------------------------------- Init ---------------------------------- *)

Init ==
  /\ audioState = IdleState
  /\ rendered = Snapshot(IdleState)
  /\ audioRef = 0
  /\ audios = << >>
  /\ last = NoLast
  /\ requested = {}
  /\ api = NotRendered
  /\ call = NotRendered
  /\ searchHook = NotRendered
  /\ toastStore = NotRendered
  /\ util = NoCall

(* ----------------------------- commands -------------------------------- *)

\* playTrack, same-track branch: pause or resume the element in audioRef
PlayToggle(id, allowed) ==
  /\ rendered.currentTrack = id /\ audioRef # 0
  /\ IF rendered.isPlaying
       THEN /\ audios' = [audios EXCEPT ![audioRef] = ElPause(@)]
            /\ audioState' = [audioState EXCEPT !.isPlaying = FALSE]
       ELSE /\ audios' = [audios EXCEPT ![audioRef] = ElPlay(@, allowed)]
            /\ audioState' = [audioState EXCEPT !.isPlaying = TRUE]
  /\ UNCHANGED audioRef

\* PlayNew with the "stop current track" step left out
PlayNewNoPause(url, id, allowed) ==
  /\ ~(rendered.currentTrack = id /\ audioRef # 0)
  /\ Len(audios) < MaxAudios
  /\ audios' = Append(audios, ElPlay(NewAudio(url), allowed))
  /\ audioRef' = Len(audios) + 1
  /\ audioState' =
       [currentTrack |-> id, isPlaying |-> TRUE, currentTime |-> 0, duration |-> 0]

\* playTrack, new-track branch: silence the old element, create and start
\* a new one, replace the whole state
PlayNew(url, id, allowed) ==
  /\ ~(rendered.currentTrack = id /\ audioRef # 0)
  /\ Len(audios) < MaxAudios
  /\ LET stopped == IF audioRef # 0
                      THEN [audios EXCEPT ![audioRef] = ElSetTime(ElPause(@), 0)]
                      ELSE audios
     IN audios' = Append(stopped, ElPlay(NewAudio(url), allowed))
  /\ audioRef' = Len(audios) + 1
  /\ audioState' =
       [currentTrack |-> id, isPlaying |-> TRUE, currentTime |-> 0, duration |-> 0]

PlayTrack(url, id, allowed) ==
  /\ \/ PlayToggle(id, allowed)
     \/ PlayNew(url, id, allowed)
  /\ Record("play", id)
  /\ requested' = requested \cup {id}
  /\ UNCHANGED rendered

PauseTrack ==
  /\ IF audioRef # 0
       THEN /\ audios' = [audios EXCEPT ![audioRef] = ElPause(@)]
            /\ audioState' = [audioState EXCEPT !.isPlaying = FALSE]
       ELSE UNCHANGED <<audios, audioState>>
  /\ Record("pause", NoTrack)
  /\ UNCHANGED <<rendered, audioRef, requested>>

\* StopTrack that clears the track through an updater and keeps the times
StopTrackKeepsTimes ==
  /\ IF audioRef # 0
       THEN audios' = [audios EXCEPT ![audioRef] = ElSetTime(ElPause(@), 0)]
       ELSE UNCHANGED audios
  /\ audioState' = [audioState EXCEPT !.currentTrack = NoTrack, !.isPlaying = FALSE]
  /\ Record("stop", NoTrack)
  /\ UNCHANGED <<rendered, audioRef, requested>>

StopTrack ==
  /\ IF audioRef # 0
       THEN audios' = [audios EXCEPT ![audioRef] = ElSetTime(ElPause(@), 0)]
       ELSE UNCHANGED audios
  /\ audioState' = IdleState
  /\ Record("stop", NoTrack)
  /\ UNCHANGED <<rendered, audioRef, requested>>

SetCurrentTime(time) ==
  /\ IF audioRef # 0
       THEN /\ audios' = [audios EXCEPT ![audioRef] = ElSetTime(@, time)]
            /\ audioState' = [audioState EXCEPT !.currentTime = time]
       ELSE UNCHANGED <<audios, audioState>>
  /\ RecordEvent("seek")
  /\ UNCHANGED <<rendered, audioRef, requested>>

\* React commits the state: new closures see the current audioState
Render ==
  /\ rendered # Snapshot(audioState)
  /\ rendered' = Snapshot(audioState)
  /\ UNCHANGED <<audioState, audioRef, audios, last, requested>>

(* --------------------- audio elements and listeners -------------------- *)

\* metadata arrives: a pending start position is clamped into the media,
\* and the loadedmetadata listener stores audio.duration
LoadedMetadata(i) ==
  /\ ~audios[i].loaded /\ ~audios[i].failed
  /\ LET e == audios[i]
         d == MediaDuration(e.src)
         c == Clamp(e.currentTime, 0, d)
     IN audios' = [audios EXCEPT ![i] =
          [e EXCEPT !.loaded = TRUE, !.currentTime = c,
                    !.queued = (e.queued \/ (~e.paused /\ c = d))]]
  /\ audioState' = [audioState EXCEPT !.duration = MediaDuration(audios[i].src)]
  /\ RecordEvent("event")
  /\ UNCHANGED <<rendered, audioRef, requested>>

\* the resource cannot be loaded: the element fails; the provider registers
\* no listener for it
AudioError(i) ==
  /\ ~audios[i].loaded /\ ~audios[i].failed
  /\ audios' = [audios EXCEPT ![i] = [@ EXCEPT !.failed = TRUE]]
  /\ RecordEvent("error")
  /\ UNCHANGED <<audioState, rendered, audioRef, requested>>

\* playback advances by one second and queues a media event task
Advance(i) ==
  /\ audios[i].loaded /\ ~audios[i].paused
  /\ audios[i].currentTime < MediaDuration(audios[i].src)
  /\ audios' = [audios EXCEPT ![i] =
        [@ EXCEPT !.currentTime = @ + 1, !.queued = TRUE]]
  /\ RecordEvent("event")
  /\ UNCHANGED <<audioState, rendered, audioRef, requested>>

\* `ended` is fired only for an element that has ended playback and is not
\* paused when the task runs
EndedFires(e) == HasEnded(e) /\ ~e.paused

\* timeupdate listener
OnTimeUpdate(st, e) == [st EXCEPT !.currentTime = e.currentTime]

\* an ended listener that resets the whole store
OnEndedIdle(st) == IdleState

\* ended listener
OnEnded(st) == [st EXCEPT !.isPlaying = FALSE, !.currentTime = 0]

\* the queued media event task runs: the timeupdate listener stores
\* audio.currentTime; at the end of the media the element pauses and the
\* ended listener runs
MediaEvent(i) ==
  /\ audios[i].queued
  /\ LET e == audios[i]
     IN /\ audios' = [audios EXCEPT ![i] =
             [e EXCEPT !.queued = FALSE, !.paused = (e.paused \/ HasEnded(e))]]
        /\ audioState' =
             IF EndedFires(e)
               THEN OnEnded(OnTimeUpdate(audioState, e))
               ELSE OnTimeUpdate(audioState, e)
  /\ RecordEvent(IF EndedFires(audios[i]) THEN "ended" ELSE "event")
  /\ UNCHANGED <<rendered, audioRef, requested>>

(* ------------------------------- Next ---------------------------------- *)

Next ==
  \/ (\E id \in TrackIds, allowed \in BOOLEAN : PlayTrack(UrlOf(id), id, allowed))
       /\ UNCHANGED hookVars
  \/ PauseTrack /\ UNCHANGED hookVars
  \/ StopTrack /\ UNCHANGED hookVars
  \/ (\E time \in SeekTimes : SetCurrentTime(time)) /\ UNCHANGED hookVars
  \/ Render /\ UNCHANGED hookVars
  \/ (\E i \in 1 .. Len(audios) : LoadedMetadata(i)) /\ UNCHANGED hookVars
  \/ (\E i \in 1 .. Len(audios) : AudioError(i)) /\ UNCHANGED hookVars
  \/ (\E i \in 1 .. Len(audios) : Advance(i)) /\ UNCHANGED hookVars
  \/ (\E i \in 1 .. Len(audios) : MediaEvent(i)) /\ UNCHANGED hookVars

Spec == Init /\ [][Next]_vars

\* useApi on its own
SpecApi == Init /\ [][NextApi]_vars

\* useApiCall on its own
SpecCall == Init /\ [][NextCall]_vars

\* useSearch on its own
SpecSearch == Init /\ [][NextSearch]_vars

\* useSearch as the Voice Library page calls it: the searchApi argument is
\* an inline arrow function, a new function at every render (fresh = TRUE)
NextLibrary ==
  \/ UseSearch /\ UNCHANGED exceptSearch
  \/ searchHook # NotRendered
       /\ (\E q \in Queries : SetQuery(q)) /\ UNCHANGED exceptSearch
  \/ searchHook # NotRendered /\ TimerFires /\ UNCHANGED exceptSearch
  \/ searchHook # NotRendered
       /\ (\E r \in searchHook.pending : SearchResolve(r))
       /\ UNCHANGED exceptSearch
  \/ searchHook # NotRendered
       /\ (\E r \in searchHook.pending, e \in ErrorValues : SearchReject(r, e))
       /\ UNCHANGED exceptSearch
  \/ searchHook # NotRendered /\ Rerender(TRUE) /\ UNCHANGED exceptSearch
  \/ searchHook # NotRendered /\ ClearSearch(TRUE) /\ UNCHANGED exceptSearch
  \/ searchHook # NotRendered /\ Tick /\ UNCHANGED exceptSearch

SpecLibrary == Init /\ [][NextLibrary]_vars

\* the functions of src/api on their own
SpecUtil == Init /\ [][NextUtil]_vars

\* the toast store on its own
SpecToast == Init /\ [][NextToast]_vars

\* the toast store with its timers: an armed timeout is never cancelled
\* (addToast keeps no handle to clear it), so the event loop runs it
SpecToastFair ==
  /\ SpecToast
  /\ \A id \in 1 .. MaxToasts :
        WF_vars(toastStore # NotRendered /\ TimeoutFires(id)
                  /\ UNCHANGED exceptToasts)

(* ---------------------- the Text-to-Speech page ------------------------ *)

\* the track id the page uses for every generated speech
GeneratedSpeech == "generated-speech"

\* audioUrl of a generateSpeech result (the mock returns one fixed URL)
GeneratedUrl == "https://www.soundjay.com/misc/sounds/bell-ringing-05.wav"

\* the URLs the data source supplies: voice samples, projects, generations
DataSourceUrls == {UrlOf(id) : id \in TrackIds} \cup {GeneratedUrl}

\* handleGenerate after its await: the generation succeeded and the page
\* calls playTrack(result.audioUrl, 'generated-speech')
GenerationDone(allowed) == PlayTrack(GeneratedUrl, GeneratedSpeech, allowed)

\* a voice sample or project started on another page
PlaySample(id, allowed) == PlayTrack(UrlOf(id), id, allowed)

\* the play/pause button of the page's player, shown while a track is
\* active: pauseTrack when playing, else
\* playTrack(audioState.currentTrack, 'generated-speech')
PlayerButton(allowed) ==
  /\ rendered.currentTrack # NoTrack
  /\ IF rendered.isPlaying
       THEN PauseTrack
       ELSE PlayTrack(rendered.currentTrack, GeneratedSpeech, allowed)

NextTts ==
  \/ (\E allowed \in BOOLEAN : GenerationDone(allowed)) /\ UNCHANGED hookVars
  \/ (\E id \in TrackIds, allowed \in BOOLEAN : PlaySample(id, allowed))
       /\ UNCHANGED hookVars
  \/ (\E allowed \in BOOLEAN : PlayerButton(allowed)) /\ UNCHANGED hookVars
  \/ Render /\ UNCHANGED hookVars
  \/ (\E i \in 1 .. Len(audios) : LoadedMetadata(i)) /\ UNCHANGED hookVars
  \/ (\E i \in 1 .. Len(audios) : AudioError(i)) /\ UNCHANGED hookVars
  \/ (\E i \in 1 .. Len(audios) : Advance(i)) /\ UNCHANGED hookVars
  \/ (\E i \in 1 .. Len(audios) : MediaEvent(i)) /\ UNCHANGED hookVars

\* the audio provider as driven from the Text-to-Speech page
SpecTts == Init /\ [][NextTts]_vars

(* ------------------------------ properties ----------------------------- *)

\* the elements that are producing sound
ProducingSet == {i \in 1 .. Len(audios) : Producing(audios[i])}

\* the state right after a playTrack call with a track id never used before
AfterFreshPlay == last.op = "play" /\ last.fresh

\* every element but the one in audioRef is paused
OthersPaused == \A i \in 1 .. Len(audios) : i # audioRef => audios[i].paused

\* the newest element is the one in audioRef, bound to the requested track
NewestIsCurrent ==
  /\ audioRef = Len(audios) /\ audioRef # 0
  /\ audios[audioRef].src = UrlOf(last.id)
  /\ audioState.currentTrack = last.id

\* C1 as stated: after every playTrack call with a fresh track id exactly one
\* element is producing sound, it is the element created for that track,
\* and every earlier element is paused.
C1_ExactlyOneProducer ==
  AfterFreshPlay =>
    /\ NewestIsCurrent
    /\ OthersPaused
    /\ ProducingSet = {audioRef}

\* C1 amended: after every playTrack call with a fresh track id at most one
\* element is producing sound: either the element created for that track is
\* the only producer, or the platform refused play() and it is still paused
\* and nothing produces sound; every earlier element is paused.
C1_AtMostOneProducer ==
  AfterFreshPlay =>
    /\ NewestIsCurrent
    /\ OthersPaused
    /\ \/ ProducingSet = {audioRef}
       \/ audios[audioRef].paused /\ ProducingSet = {}

\* C1 witness: a second track was started while the first one was playing;
\* the first element was paused by the call and the new one produces sound
C1_Witness ==
  /\ AfterFreshPlay
  /\ last.st.isPlaying
  /\ Len(audios) = 2
  /\ audios[1].paused /\ audios[1].queued
  /\ ProducingSet = {2}

\* C2 as stated: whenever currentTrack is null, isPlaying is false and
\* currentTime and duration are 0.
C2_IdleImpliesZeroed ==
  audioState.currentTrack = NoTrack =>
    /\ audioState.isPlaying = FALSE
    /\ audioState.currentTime = 0
    /\ audioState.duration = 0

\* C3: right after stopTrack the store is the full idle state and no
\* element is producing sound, whatever the state before.
C3_StopResets ==
  last.op = "stop" => audioState = IdleState /\ ProducingSet = {}

\* C3 witness: stopTrack ran on a playing track with known duration and a
\* position; its element was playing and has been paused by the call
C3_Witness ==
  /\ last.op = "stop"
  /\ last.st.currentTrack # NoTrack /\ last.st.isPlaying
  /\ last.st.duration > 0 /\ last.st.currentTime > 0
  /\ audios[audioRef].paused /\ audios[audioRef].queued
  /\ audioState = IdleState

\* a playTrack call for track id, with any answer of the platform to play()
PlayCall(id) == \E allowed \in BOOLEAN : PlayTrack(UrlOf(id), id, allowed)

\* C4 as stated (toggle law): a playTrack(url, X) call that directly follows
\* a playTrack(url, X) call leaves isPlaying = false and currentTrack = X.
C4_ToggleLaw ==
  [][\A id \in TrackIds :
       (last.op = "play" /\ last.id = id /\ PlayCall(id)) =>
         /\ audioState'.isPlaying = FALSE
         /\ audioState'.currentTrack = id]_vars

\* C5 as stated (resume law): playTrack(url, X), pauseTrack(), playTrack(url, X)
\* leaves isPlaying = true and currentTrack = X, keeps the same audio element
\* and leaves currentTime at its value just before the pause.
C5_ResumeLaw ==
  [][\A id \in TrackIds :
       (last.op = "pause" /\ last.id = id /\ PlayCall(id)) =>
         /\ audioState'.isPlaying = TRUE
         /\ audioState'.currentTrack = id
         /\ audioRef' = audioRef /\ Len(audios') = Len(audios)
         /\ audioState'.currentTime = last.st.currentTime]_vars

C7_FailureStopsPlaying ==
  (audioRef # 0 /\ audios[audioRef].failed) => audioState.isPlaying = FALSE

\* C8 as stated: with a track active and duration > 0, setCurrentTime(value)
\* stores duration for a value above duration and 0 for a negative value.
C8_SeekClamps ==
  [][\A time \in SeekTimes :
       (/\ audioState.currentTrack # NoTrack
        /\ audioState.duration > 0
        /\ SetCurrentTime(time)) =>
         /\ time > audioState.duration =>
              audioState'.currentTime = audioState.duration
         /\ time < 0 => audioState'.currentTime = 0]_vars

\* C9 as stated: once duration > 0, 0 <= currentTime <= duration.
C9_PositionWithinDuration ==
  audioState.duration > 0 =>
    /\ 0 <= audioState.currentTime
    /\ audioState.currentTime <= audioState.duration

\* the element of the active track is playing: not paused, not failed
ActiveElementPlaying ==
  /\ audioState.currentTrack # NoTrack
  /\ audioRef # 0
  /\ ~audios[audioRef].paused
  /\ ~audios[audioRef].failed

\* C10 as stated: isPlaying is true exactly when the element of the active
\* track is playing.
C10_IsPlayingMatchesElement ==
  audioState.isPlaying <=> ActiveElementPlaying

\* C11 as stated: playTrack of a track other than the active one makes it
\* the active track with isPlaying = true, currentTime = 0 and duration = 0,
\* leaves the old element paused and no longer held, and duration stays 0
\* as long as the metadata of the new active element has not resolved.
C11_SwitchTrack ==
  /\ (/\ last.op = "play"
      /\ last.st.currentTrack # NoTrack
      /\ last.st.currentTrack # last.id) =>
        /\ audioState = [currentTrack |-> last.id, isPlaying |-> TRUE,
                         currentTime |-> 0, duration |-> 0]
        /\ audios[audioRef].src = UrlOf(last.id)
        /\ OthersPaused
  /\ (/\ audioState.currentTrack # NoTrack
      /\ audioRef # 0
      /\ ~audios[audioRef].loaded) => audioState.duration = 0

\* C12 as stated: after stopTrack the provider holds no audio element.
C12_StopReleasesHandle ==
  last.op = "stop" => audioRef = 0

\* C13 as stated: while currentTrack is null, pauseTrack, stopTrack and
\* setCurrentTime leave the four state fields unchanged.
C13_IdleCommandsAreNoOps ==
  [][(/\ audioState.currentTrack = NoTrack
      /\ \/ PauseTrack
         \/ StopTrack
         \/ \E time \in SeekTimes : SetCurrentTime(time)) =>
        audioState' = audioState]_vars

\* C14 as stated: every command acts on the state left by the command before
\* it, as the state machine prescribes: playTrack of the active track
\* toggles isPlaying, playTrack of another track makes it active and
\* playing, pauseTrack of an active track clears isPlaying, stopTrack goes
\* to idle.
C14_CommandsApplyInOrder ==
  [][/\ \A id \in TrackIds :
          PlayCall(id) =>
            /\ audioState'.currentTrack = id
            /\ audioState'.isPlaying =
                 (IF audioState.currentTrack = id
                    THEN ~audioState.isPlaying
                    ELSE TRUE)
     /\ (PauseTrack /\ audioState.currentTrack # NoTrack) =>
            /\ audioState'.currentTrack = audioState.currentTrack
            /\ audioState'.isPlaying = FALSE
     /\ StopTrack => audioState' = IdleState]_vars


(* ------------------------- useApi: C16, C17 ---------------------------- *)

\* C16: useApi starts in {loading: true, data: null, error: null}; the mount
\* effect issues exactly one call; when that call resolves with
\* response.data = d the hook is in {loading: false, data: d, error: null}.
C16_MountFetch ==
  api # NotRendered =>
    /\ api.calls = 0 => /\ api.st = HookState(Null, TRUE, Null)
                        /\ ~api.mounted
    /\ api.last.op = "mount" => /\ api.calls = 1
                                /\ Cardinality(api.pending) = 1
                                /\ api.st = HookState(Null, TRUE, Null)
    /\ api.mounted => api.calls >= 1
    /\ (api.calls = 1 /\ api.last.op = "resolve") =>
          api.st = HookState(api.last.arg, FALSE, Null)

\* the mount call has resolved and its data is shown
C16_Witness ==
  /\ api # NotRendered
  /\ api.calls = 1
  /\ api.last.op = "resolve"
  /\ api.st = HookState("d1", FALSE, Null)

\* C17: a call of useApi that rejects with Error(m) leaves loading = false,
\* error = m and data as it was (null when nothing was loaded before); a
\* refetch clears the error, and when the refetched call, running alone,
\* resolves, data is the new response and error is null.
C17_ErrorThenRefetch ==
  api # NotRendered =>
    /\ (/\ api.last.op = "reject"
         /\ api.last.arg.kind \in {"Error", "ApiError"}) =>
           /\ api.st = HookState(api.last.pre.data, FALSE, api.last.arg.message)
           /\ (api.calls = 1 => api.st.data = Null)
    /\ api.last.op = "refetch" => /\ api.st.error = Null
                                  /\ api.st.loading
                                  /\ api.st.data = api.last.pre.data
    /\ api.last.op = "resolve" => /\ api.st.data = api.last.arg
                                  /\ ~api.st.loading
    /\ (api.last.op = "resolve" /\ ~api.last.overlapped) =>
          api.st = HookState(api.last.arg, FALSE, Null)

\* the first call was rejected, the refetched one resolved alone
C17_Witness ==
  /\ api # NotRendered
  /\ api.calls = 2
  /\ api.rejected = 1
  /\ api.pending = {}
  /\ api.last.op = "resolve"
  /\ ~api.last.overlapped
  /\ api.st = HookState("d2", FALSE, Null)

(* -------------------------- useApiCall: C18 ---------------------------- *)

\* C18: execute sets loading = true (and clears error) and the call is
\* pending; when the call fails with message m, the promise of execute
\* rejects with an Error whose message is m and the hook holds
\* {loading: false, error: m}; reset() returns the hook to
\* {data: null, error: null, loading: false}.
C18_ExecuteAndReset ==
  call # NotRendered =>
    /\ call.last.op = "execute" => /\ call.st.loading
                                   /\ call.st.error = Null
                                   /\ call.pending # {}
    /\ call.last.op = "reject" =>
          /\ call.result = [kind |-> "rejected",
                            value |-> [kind |-> "Error", message |-> call.st.error]]
          /\ ~call.st.loading
          /\ (call.last.arg.kind \in {"Error", "ApiError"} =>
                 call.st.error = call.last.arg.message)
    /\ call.last.op = "reset" => call.st = HookState(Null, FALSE, Null)

\* reset() was called while the error of a failed call was showing
C18_Witness ==
  /\ call # NotRendered
  /\ call.last.op = "reset"
  /\ call.last.pre.error = "m1"
  /\ call.result = [kind |-> "rejected",
                    value |-> [kind |-> "Error", message |-> "m1"]]
  /\ call.st = HookState(Null, FALSE, Null)

(* -------------------------- useSearch: C15, C19 ------------------------ *)

\* C15 as stated: the search API is not called before the debounce interval
\* has elapsed since the last change of query, it is called with the last
\* query value, and it is called exactly once per change.
C15_Debounce ==
  searchHook # NotRendered =>
    /\ (searchHook.last.op = "search" /\ searchHook.last.issued) =>
          /\ searchHook.last.elapsed >= DebounceMs
          /\ searchHook.last.q = searchHook.last.query
    /\ searchHook.sinceChange <= 1

\* C19: search never calls searchApi for an empty or whitespace-only query;
\* when the timer fires with such a query no request is issued and results
\* is the empty list.
C19_BlankQueryNotSearched ==
  searchHook # NotRendered =>
    /\ \A r \in searchHook.pending : Trim(r.q) # << >>
    /\ searchHook.last.op = "search" =>
          IF \A i \in 1 .. Len(searchHook.last.q) : searchHook.last.q[i] = " "
          THEN /\ ~searchHook.last.issued
               /\ searchHook.results = Empty
          ELSE searchHook.last.issued

\* the timer fired with a whitespace-only query while results were showing
C19_Witness ==
  /\ searchHook # NotRendered
  /\ searchHook.last.op = "search"
  /\ searchHook.last.q = <<" ">>
  /\ searchHook.last.hadResults
  /\ ~searchHook.last.issued
  /\ searchHook.results = Empty
  /\ searchHook.pending = {}

(* -------------------------- ToastProvider: C20 ------------------------- *)

\* a toast is in the list with a positive duration
Showing(id) ==
  /\ toastStore # NotRendered
  /\ id \in ToastIdsOf(toastStore.toasts)
  /\ ListedDuration(id) > 0

\* C20: a toast added without a duration gets 5000; every toast in the list
\* with a duration > 0 has its timeout armed; when the timeout fires, or
\* removeToast is called by hand, the toast is gone from the list; and
\* every toast with a duration > 0 is eventually absent from the list.
C20_AutoDismiss ==
  /\ [](toastStore # NotRendered =>
         /\ (\A id \in 1 .. MaxToasts : Showing(id) => id \in toastStore.timers)
         /\ (toastStore.last.op = "add" =>
               /\ toastStore.last.id \in ToastIdsOf(toastStore.toasts)
               /\ ListedDuration(toastStore.last.id) = toastStore.last.duration
               /\ toastStore.last.duration \in {DefaultDuration, 0, 0 - 1, 2000})
         /\ (toastStore.last.op \in {"timeout", "remove"} =>
               toastStore.last.id \notin ToastIdsOf(toastStore.toasts)))
  /\ \A id \in 1 .. MaxToasts : Showing(id) ~> ~Showing(id)

\* the timeout of a toast added without a duration took it off the list
\* while another toast stayed
C20_Witness ==
  /\ toastStore # NotRendered
  /\ toastStore.last.op = "timeout"
  /\ toastStore.last.removed
  /\ toastStore.last.duration = DefaultDuration
  /\ toastStore.last.id \notin ToastIdsOf(toastStore.toasts)
  /\ toastStore.toasts # << >>

(* ----------------------- apiUtils: C21, C22, C23 ----------------------- *)

\* C21 as stated: handleApiError returns the message of an Error instance,
\* the string itself for a string, and 'An unexpected error occurred' for
\* any other value.
C21_HandleApiError ==
  util.op = "handleApiError" =>
    util.result =
      IF util.arg.kind \in {"Error", "ApiError", "string"}
      THEN util.arg.message
      ELSE UnexpectedError

\* C23 as stated: of two dubbing results, the one for the larger file
\* reports the strictly greater processingTime.
C23_LargerFileTakesLonger ==
  (/\ util.op = "processDubbing"
   /\ util.success
   /\ util.prev # NoDub) =>
     /\ util.prev.size < util.fileSize =>
           util.prev.processingTime < util.processingTime
     /\ util.prev.size > util.fileSize =>
           util.prev.processingTime > util.processingTime

\* the text the claim searches: name, description, gender and language
SearchableText(voice) ==
  ToLowerCase(voice.name \o <<" ">> \o voice.description \o <<" ">>
              \o voice.gender \o <<" ">> \o voice.language)

\* C22 as stated: every voice returned by searchVoicesApi(query) contains
\* the lower-cased query in the lower-cased text of its name, description,
\* gender and language; a query that no voice contains returns the empty
\* list with success = true.
C22_SearchMatches ==
  (util.op = "searchVoicesApi" /\ util.categoryId = "all") =>
    /\ \A i \in 1 .. Len(util.data) :
          Includes(SearchableText(util.data[i]), ToLowerCase(util.query))
    /\ (\A i \in 1 .. Len(mockVoices) :
           ~Includes(SearchableText(mockVoices[i]), ToLowerCase(util.query))) =>
          /\ util.success
          /\ util.data = << >>

(* ------------------------ AudioProvider: C24 --------------------------- *)

\* C24 as stated: a loadedmetadata, timeupdate or ended callback of an
\* element that is not the active one (it was replaced by a later
\* playTrack, or its track was stopped) leaves the store unchanged.
C24_StaleCallbacksIgnored ==
  [][\A i \in 1 .. Len(audios) :
       (/\ (i # audioRef \/ audioState.currentTrack = NoTrack)
        /\ (LoadedMetadata(i) \/ MediaEvent(i))) =>
          audioState' = audioState]_vars

(* --------------------- Text-to-Speech page: C25, C30 ------------------- *)

\* C25 as stated: after every successful generation the store is
\* {currentTrack: 'generated-speech', isPlaying: true} and the active
\* element is bound to the audioUrl of the result, also when an earlier
\* generated speech is still the active track.
C25_GeneratedSpeechPlays ==
  [][(\E allowed \in BOOLEAN : GenerationDone(allowed)) =>
       /\ audioState'.currentTrack = GeneratedSpeech
       /\ audioState'.isPlaying
       /\ audios'[audioRef'].src = GeneratedUrl]_vars

\* C30 as stated: the player button never creates an audio element, and
\* every element ever created is bound to a URL of the data source.
C30_ButtonCreatesNoAudio ==
  [][/\ (\E allowed \in BOOLEAN : PlayerButton(allowed)) =>
          Len(audios') = Len(audios)
     /\ \A i \in 1 .. Len(audios') : audios'[i].src \in DataSourceUrls]_vars

(* ------------------------ useSearch: C26, C28 -------------------------- *)

\* C26 as stated: once every in-flight search has settled and the
\* debounce of the latest query has run without an error, results is the
\* response to the latest query, or [] when that query is blank (also
\* after clearSearch), whatever the order in which the requests settled.
C26_ResultsOfLatestQuery ==
  (/\ searchHook # NotRendered
   /\ searchHook.pending = {}
   /\ ~searchHook.timer.armed
   /\ searchHook.error = Null) =>
     searchHook.results =
       IF Trim(searchHook.query) = << >> THEN Empty
       ELSE ResponseTo(searchHook.query)

\* C28 as stated: on the Voice Library page the debounce timer is armed
\* once per change of the search term; a step that is no user input and
\* leaves the term as it was never arms the timer again, so the run of
\* search that a timer causes is the last one until the next change.
C28_ArmedOncePerChange ==
  [][(/\ searchHook # NotRendered
      /\ searchHook'.last.op # "clearSearch"
      /\ searchHook'.timer.armed
      /\ searchHook'.timer # searchHook.timer) =>
        searchHook'.query # searchHook.query]_vars

(* ------------------------------ useApi: C27 ---------------------------- *)

\* C27 as stated: loading is true whenever a request issued by useApi is
\* still pending, also when refetch was called while an earlier request
\* was in flight.
C27_LoadingWhilePending ==
  (api # NotRendered /\ api.pending # {}) => api.st.loading

(* -------------------------- ToastProvider: C29 ------------------------- *)

\* the toasts other than id, in the order of the list
OthersInOrder(toasts, id) == SelectSeq(toasts, LAMBDA t : t.id # id)

\* C29: removeToast(id), by hand or from the auto-dismiss timeout, takes
\* exactly the toast with that id off the list and keeps every other toast
\* in the same relative order; for a toast that is no longer on the list
\* (removed by hand, by its timeout or by clearAllToasts) the list is left
\* unchanged.
C29_RemovesOnlyThatToast ==
  [][\A id \in 1 .. MaxToasts :
       (/\ toastStore # NotRendered
        /\ (RemoveToast(id) \/ TimeoutFires(id))) =>
          /\ toastStore'.toasts = OthersInOrder(toastStore.toasts, id)
          /\ Len(toastStore'.toasts) >= Len(toastStore.toasts) - 1
          /\ id \in ToastIdsOf(toastStore.toasts) =>
                /\ Len(toastStore'.toasts) = Len(toastStore.toasts) - 1
                /\ id \notin ToastIdsOf(toastStore'.toasts)
          /\ id \notin ToastIdsOf(toastStore.toasts) =>
                toastStore'.toasts = toastStore.toasts]_vars

\* the timeout of a toast that was removed by hand from the middle of the
\* list has fired, and the two toasts around it are still listed in order
C29_Witness ==
  /\ toastStore # NotRendered
  /\ toastStore.last.op = "timeout"
  /\ ~toastStore.last.removed
  /\ toastStore.last.id = 2
  /\ Len(toastStore.toasts) = 2
  /\ toastStore.toasts[1].id = 1
  /\ toastStore.toasts[2].id = 3
====
